---- MODULE Spec2Model ----
(***************************************************************************)
(* A model of the per-frame simulation of pong_rs (src/src/game.rs):       *)
(* GameState, its constructor and EventHandler::update with the three      *)
(* helpers it calls.                                                       *)
(*                                                                         *)
(* Numbers.  The program computes in f32.  The model computes in fixed     *)
(* point: a length or a velocity component v is the integer v * Scale,     *)
(* an angle or a value of cos/sin is the integer v * TrigScale, and every  *)
(* product or quotient is rounded to the nearest unit, as an f32           *)
(* operation rounds to the nearest representable value.  Durations are     *)
(* whole milliseconds.  The score counters are u8.                         *)
(***************************************************************************)
EXTENDS Integers, Sequences, FiniteSets, TLC

(***************************************************************************)
(* Program constants (game.rs:10-14) and the literals of the code.         *)
(***************************************************************************)
PADDLE_SPEED == 5
BALL_SPEED == 6
PADDLE_WIDTH == 20
PADDLE_HEIGHT == 100
BALL_RADIUS == 8
PADDLE_MARGIN == 20
DELAY_MILLIS == 1000
U8_MAX == 255

(***************************************************************************)
(* Bounds of the model.                                                    *)
(***************************************************************************)
Scale == 100
TrigScale == 10000
WindowWidth == 120
WindowHeight == 120
MaxFrames == 20
RallyFrames == 11
SpeedTol == 1

\* ctx.time.delta() of one frame, in milliseconds.
FrameTimes == {0, 400, 1000}

\* keyboard.pressed_keys() is a HashSet: its iteration order is not fixed, so
\* a frame's input is the sequence in which the pressed keys are visited.
KeyOrders == {<< >>, <<"W">>, <<"S">>, <<"W", "S">>, <<"S", "W">>}

\* rand::random::<f32>() is uniform in [0, 1).  The draws the model takes, in
\* units of 1 / TrigScale: for the angle (game.rs:34) and for the horizontal
\* direction (game.rs:36).
AngleDraws == {0}
SignDraws == {0, TrigScale \div 2}

(***************************************************************************)
(* Fixed-point arithmetic.                                                 *)
(***************************************************************************)
Abs(n) == IF n < 0 THEN -n ELSE n

\* n / d rounded to the nearest integer (d > 0), halves away from zero.
Round(n, d) == IF n >= 0 THEN (2 * n + d) \div (2 * d)
               ELSE -((2 * (-n) + d) \div (2 * d))

\* A product of two TrigScale values, as a TrigScale value.
TMul(a, b) == Round(a * b, TrigScale)

\* f32::cos and f32::sin for |a| <= pi/3, a in units of 1 / TrigScale.
Cos(a) ==
    LET a2 == TMul(a, a)
        a4 == TMul(a2, a2)
        a6 == TMul(a4, a2)
    IN  TrigScale - Round(a2, 2) + Round(a4, 24) - Round(a6, 720)

Sin(a) ==
    LET a2 == TMul(a, a)
        a3 == TMul(a2, a)
        a5 == TMul(a3, a2)
        a7 == TMul(a5, a2)
    IN  a - Round(a3, 6) + Round(a5, 120) - Round(a7, 5040)

RECURSIVE SqrtSearch(_, _, _)
SqrtSearch(n, lo, hi) ==
    IF lo >= hi THEN lo
    ELSE LET mid == (lo + hi + 1) \div 2
         IN  IF mid * mid <= n THEN SqrtSearch(n, mid, hi)
             ELSE SqrtSearch(n, lo, mid - 1)

\* f32::sqrt: the nearest integer to the square root of n.
Sqrt(n) == (SqrtSearch(4 * n, 0, 4 * BALL_SPEED * Scale) + 1) \div 2

PI == Round(31416 * TrigScale, 10000)

(***************************************************************************)
(* State: the fields of GameState (game.rs:16-26), the drawable size the   *)
(* context reports, what the last update call did, and which paddles have  *)
(* bounced the ball since the last reset.                                  *)
(***************************************************************************)
VARIABLES left_paddle_pos, right_paddle_pos, ball_pos, ball_vel, score,
          paused, delay_duration, window, crashed, frames, last, covered

vars == <<left_paddle_pos, right_paddle_pos, ball_pos, ball_vel, score,
          paused, delay_duration, window, crashed, frames, last, covered>>

game == <<left_paddle_pos, right_paddle_pos, ball_pos, ball_vel, score,
          delay_duration>>

\* game.rs:31-46
random_ball_velocity(r1, r2) ==
    LET angle == Round((r1 - TrigScale \div 2) * 2 * PI, 3 * TrigScale)
        x_direction == IF r2 < TrigScale \div 2 THEN 1 ELSE -1
    IN  [x |-> x_direction * Round(Cos(angle) * BALL_SPEED * Scale, TrigScale),
         y |-> Round(Sin(angle) * BALL_SPEED * Scale, TrigScale)]

\* game.rs:53-56 and 189-192
LeftPaddleStart(width, height) ==
    [x |-> PADDLE_MARGIN * Scale,
     y |-> Round(height, 2) - Round(PADDLE_HEIGHT * Scale, 2)]

\* game.rs:57-60 and 193-196
RightPaddleStart(width, height) ==
    [x |-> width - PADDLE_WIDTH * Scale - PADDLE_MARGIN * Scale,
     y |-> Round(height, 2) - Round(PADDLE_HEIGHT * Scale, 2)]

\* game.rs:61-64 and 182-185
BallStart(width, height) == [x |-> Round(width, 2), y |-> Round(height, 2)]

\* What an update call read and did: the branch it took, the keys
\* handle_paddle_movement visited, the frame time the countdown consumed,
\* and what the ball met.
NoEvent == [branch |-> "new", keys |-> {}, dt |-> 0,
            leftBand |-> FALSE, leftHit |-> FALSE,
            rightBand |-> FALSE, rightHit |-> FALSE,
            wall |-> FALSE, scored |-> "none"]

\* Which paddles have bounced the ball (offset ratio within [-1, 1],
\* game.rs:109 and 125): left and right since the last reset of the ball;
\* leftApproach and rightApproach since the last reset or the last bounce
\* off the other paddle, whichever is later.
NoCover == [left |-> FALSE, right |-> FALSE,
            leftApproach |-> FALSE, rightApproach |-> FALSE]

Cover(c, leftHit, rightHit) ==
    [left |-> c.left \/ leftHit,
     right |-> c.right \/ rightHit,
     leftApproach |-> ~rightHit /\ (c.leftApproach \/ leftHit),
     rightApproach |-> rightHit \/ (c.rightApproach /\ ~leftHit)]

\* game.rs:50-65: the layout both the constructor and the reset after a score
\* give the paddles and the ball.
StartLayout ==
    /\ window = [w |-> WindowWidth * Scale, h |-> WindowHeight * Scale]
    /\ left_paddle_pos = LeftPaddleStart(window.w, window.h)
    /\ right_paddle_pos = RightPaddleStart(window.w, window.h)
    /\ ball_pos = BallStart(window.w, window.h)
    /\ \E r1 \in AngleDraws, r2 \in SignDraws :
          ball_vel = random_ball_velocity(r1, r2)
    /\ paused = FALSE
    /\ crashed = FALSE
    /\ frames = 0
    /\ last = NoEvent
    /\ covered = NoCover

\* game.rs:48-70 (GameState::new)
Init ==
    /\ StartLayout
    /\ score = <<0, 0>>
    /\ delay_duration = 0

\* A game late in play: the state update leaves (game.rs:181-199) when the
\* left player has just scored point U8_MAX - 1 and the right player holds
\* U8_MAX points.
InitLate ==
    /\ StartLayout
    /\ score = <<U8_MAX - 1, U8_MAX>>
    /\ delay_duration = DELAY_MILLIS

\* game.rs:74-83: the loop over the pressed keys; the last W or S visited wins.
RECURSIVE PosChange(_, _)
PosChange(keys, acc) ==
    IF keys = << >> THEN acc
    ELSE PosChange(Tail(keys),
                   CASE Head(keys) = "W" -> -1
                     [] Head(keys) = "S" -> 1
                     [] OTHER -> acc)

\* Paddle movement that forgets PADDLE_SPEED.
handle_paddle_movement_unit(lp, rp, keys) ==
    [left |-> [lp EXCEPT !.y = @ + PosChange(keys, 0) * Scale],
     right |-> [rp EXCEPT !.y = @ + PosChange(keys, 0) * Scale]]

\* Paddle movement whose pos_change starts at 1.
handle_paddle_movement_drift(lp, rp, keys) ==
    [left |-> [lp EXCEPT !.y = @ + PosChange(keys, 1) * PADDLE_SPEED * Scale],
     right |-> [rp EXCEPT !.y = @ + PosChange(keys, 1) * PADDLE_SPEED * Scale]]

\* Paddle movement that moves the right paddle the other way.
handle_paddle_movement_mirrored(lp, rp, keys) ==
    [left |-> [lp EXCEPT !.y = @ + PosChange(keys, 0) * PADDLE_SPEED * Scale],
     right |-> [rp EXCEPT !.y = @ - PosChange(keys, 0) * PADDLE_SPEED * Scale]]

\* Paddle movement that keeps the paddles inside the window.
handle_paddle_movement_clamped(lp, rp, keys) ==
    LET Clamp(y) == IF y < 0 THEN 0
                    ELSE IF y > window.h - PADDLE_HEIGHT * Scale
                    THEN window.h - PADDLE_HEIGHT * Scale
                    ELSE y
    IN  [left |-> [lp EXCEPT
                     !.y = Clamp(@ + PosChange(keys, 0) * PADDLE_SPEED * Scale)],
         right |-> [rp EXCEPT
                     !.y = Clamp(@ + PosChange(keys, 0) * PADDLE_SPEED * Scale)]]

\* game.rs:73-89
handle_paddle_movement(lp, rp, keys) ==
    LET pos_change == PosChange(keys, 0)
    IN  [left |-> [lp EXCEPT !.y = @ + pos_change * PADDLE_SPEED * Scale],
         right |-> [rp EXCEPT !.y = @ + pos_change * PADDLE_SPEED * Scale]]

\* A bounce without the `angle.abs() <= 1.` test.
BounceAlways(vel, speed, angle, sign) ==
    [x |-> Round(Cos(angle) * (sign * speed), TrigScale),
     y |-> Round(Sin(angle) * speed, TrigScale)]

\* A bounce that sends the ball back at full speed and adds the deflection.
BounceNoCos(vel, speed, angle, sign) ==
    IF Abs(angle) <= TrigScale
    THEN [x |-> sign * speed, y |-> Round(Sin(angle) * speed, TrigScale)]
    ELSE vel

\* A bounce that forgets to flip the x velocity for the right paddle.
BounceNoFlip(vel, speed, angle, sign) ==
    IF Abs(angle) <= TrigScale
    THEN [x |-> Round(Cos(angle) * speed, TrigScale),
          y |-> Round(Sin(angle) * speed, TrigScale)]
    ELSE vel

\* game.rs:107-112 and 122-129: the velocity a paddle gives the ball;
\* sign is 1 for the left paddle and -1 for the right one.
Bounce(vel, speed, angle, sign) ==
    IF Abs(angle) <= TrigScale
    THEN [x |-> Round(Cos(angle) * (sign * speed), TrigScale),
          y |-> Round(Sin(angle) * speed, TrigScale)]
    ELSE vel

\* A wall step that turns the ball around instead of reflecting it.
WallBounceBoth(vel, wall) ==
    IF wall THEN [x |-> -vel.x, y |-> -vel.y] ELSE vel

\* game.rs:133-135
WallBounce(vel, wall) == IF wall THEN [vel EXCEPT !.y = -@] ELSE vel

\* game.rs:107-108 and 122-124: distance_from_center / (PADDLE_HEIGHT / 2.)
OffsetAngle(ball_y, center_y) ==
    Round((ball_y - center_y) * TrigScale, Round(PADDLE_HEIGHT * Scale, 2))

\* game.rs:93-138
handle_ball_movement(bp, bv, lp, rp, y_bound) ==
    LET pos == [x |-> bp.x + bv.x, y |-> bp.y + bv.y]
        speed == Sqrt(bv.x * bv.x + bv.y * bv.y)
        left_center_y == lp.y + Round(PADDLE_HEIGHT * Scale, 2)
        left_surface_x == lp.x + PADDLE_WIDTH * Scale
        leftBand == /\ pos.x - BALL_RADIUS * Scale < left_surface_x
                    /\ pos.x - BALL_RADIUS * Scale
                           > left_surface_x - PADDLE_WIDTH * Scale
        leftAngle == OffsetAngle(pos.y, left_center_y)
        vel1 == IF leftBand THEN Bounce(bv, speed, leftAngle, 1) ELSE bv
        right_center_y == rp.y + Round(PADDLE_HEIGHT * Scale, 2)
        right_surface_x == rp.x
        rightBand == /\ pos.x + BALL_RADIUS * Scale > right_surface_x
                     /\ pos.x + BALL_RADIUS * Scale
                            < right_surface_x + PADDLE_WIDTH * Scale
        rightAngle == OffsetAngle(pos.y, right_center_y)
        vel2 == IF rightBand THEN Bounce(vel1, speed, rightAngle, -1) ELSE vel1
        wall == \/ pos.y - BALL_RADIUS * Scale < 0
                \/ pos.y + BALL_RADIUS * Scale > y_bound
        vel3 == WallBounce(vel2, wall)
    IN  [pos |-> pos, vel |-> vel3,
         leftBand |-> leftBand,
         leftHit |-> leftBand /\ Abs(leftAngle) <= TrigScale,
         rightBand |-> rightBand,
         rightHit |-> rightBand /\ Abs(rightAngle) <= TrigScale,
         wall |-> wall]

\* game.rs:140-152.  `+= 1` on a u8 holding 255 overflows: a build with
\* overflow checks panics there, a build without them wraps to 0.
handle_potential_score(sc, bp, x_bound) ==
    IF bp.x - BALL_RADIUS * Scale < 0
    THEN [scored |-> "right", overflow |-> sc[2] = U8_MAX,
          score |-> <<sc[1], (sc[2] + 1) % (U8_MAX + 1)>>]
    ELSE IF bp.x + BALL_RADIUS * Scale > x_bound
    THEN [scored |-> "left", overflow |-> sc[1] = U8_MAX,
          score |-> <<(sc[1] + 1) % (U8_MAX + 1), sc[2]>>]
    ELSE [scored |-> "none", overflow |-> FALSE, score |-> sc]

\* game.rs:160-162
TogglePause(p, space) == IF space THEN ~p ELSE p

\* A countdown that subtracts without the floor at zero.
CountDownNoFloor(delay, dt) == delay - dt

\* A countdown that keeps the delay when the frame time exceeds it.
CountDownKeeps(delay, dt) == IF delay - dt >= 0 THEN delay - dt ELSE delay

\* game.rs:169-172
CountDown(delay, dt) == IF delay - dt >= 0 THEN delay - dt ELSE 0

Seen(branch) == [NoEvent EXCEPT !.branch = branch]

KeySet(keys) == {keys[i] : i \in DOMAIN keys}

\* A paused frame that handles the paddles before it looks at the pause flag.
UpdatePausedMovesPaddles(space) ==
    /\ IF space THEN ~paused ELSE paused
    /\ paused' = TRUE
    /\ last' = [NoEvent EXCEPT !.branch = "paused"]
    /\ \E keys \in KeyOrders :
          /\ left_paddle_pos' =
                 handle_paddle_movement(left_paddle_pos, right_paddle_pos, keys).left
          /\ right_paddle_pos' =
                 handle_paddle_movement(left_paddle_pos, right_paddle_pos, keys).right
    /\ UNCHANGED <<ball_pos, ball_vel, score, delay_duration, crashed, frames,
                   covered>>

\* game.rs:164-166: the game is paused after the toggle.
UpdatePaused(space) ==
    /\ TogglePause(paused, space)
    /\ paused' = TRUE
    /\ last' = Seen("paused")
    /\ UNCHANGED <<game, crashed, frames, covered>>

\* game.rs:168-174: a post-score delay is running.
UpdateDelay(space, dt) ==
    /\ ~TogglePause(paused, space)
    /\ delay_duration > 0
    /\ paused' = FALSE
    /\ delay_duration' = CountDown(delay_duration, dt)
    /\ last' = [Seen("delay") EXCEPT !.dt = dt]
    /\ UNCHANGED <<left_paddle_pos, right_paddle_pos, ball_pos, ball_vel,
                   score, crashed, frames, covered>>

\* game.rs:181-199: the reset after a score.
ResetAfterScore(r1, r2) ==
    /\ ball_pos' = BallStart(window.w, window.h)
    /\ ball_vel' = random_ball_velocity(r1, r2)
    /\ left_paddle_pos' = LeftPaddleStart(window.w, window.h)
    /\ right_paddle_pos' = RightPaddleStart(window.w, window.h)
    /\ delay_duration' = DELAY_MILLIS
    /\ covered' = NoCover

\* game.rs:176-202: an active frame.
UpdateActive(space, keys) ==
    /\ ~TogglePause(paused, space)
    /\ delay_duration = 0
    /\ frames < MaxFrames
    /\ frames' = frames + 1
    /\ paused' = FALSE
    /\ \E pads \in {handle_paddle_movement(
                         left_paddle_pos, right_paddle_pos,
                         IF space THEN <<"Space">> \o keys ELSE keys)} :
       \E ball \in {handle_ball_movement(ball_pos, ball_vel, pads.left,
                                         pads.right, window.h)} :
       \E sc \in {handle_potential_score(score, ball.pos, window.w)} :
       \E seen \in {[Seen("active") EXCEPT
                       !.keys = KeySet(keys),
                       !.leftBand = ball.leftBand, !.leftHit = ball.leftHit,
                       !.rightBand = ball.rightBand, !.rightHit = ball.rightHit,
                       !.wall = ball.wall, !.scored = sc.scored]} :
           \/ /\ sc.scored = "none"
              /\ left_paddle_pos' = pads.left
              /\ right_paddle_pos' = pads.right
              /\ ball_pos' = ball.pos
              /\ ball_vel' = ball.vel
              /\ covered' = Cover(covered, ball.leftHit, ball.rightHit)
              /\ last' = seen
              /\ UNCHANGED <<score, delay_duration, crashed>>
           \/ /\ sc.scored # "none"
              /\ ~sc.overflow
              /\ score' = sc.score
              /\ \E r1 \in AngleDraws, r2 \in SignDraws :
                     ResetAfterScore(r1, r2)
              /\ last' = seen
              /\ UNCHANGED crashed
           \* overflow, in a build without overflow checks: the counter wraps
           \/ /\ sc.scored # "none"
              /\ sc.overflow
              /\ score' = sc.score
              /\ \E r1 \in AngleDraws, r2 \in SignDraws :
                     ResetAfterScore(r1, r2)
              /\ last' = [seen EXCEPT !.branch = "wrapped"]
              /\ UNCHANGED crashed
           \* overflow, in a build with overflow checks: `+= 1` panics
           \/ /\ sc.scored # "none"
              /\ sc.overflow
              /\ crashed' = TRUE
              /\ left_paddle_pos' = pads.left
              /\ right_paddle_pos' = pads.right
              /\ ball_pos' = ball.pos
              /\ ball_vel' = ball.vel
              /\ covered' = Cover(covered, ball.leftHit, ball.rightHit)
              /\ last' = [seen EXCEPT !.branch = "panicked"]
              /\ UNCHANGED <<score, delay_duration>>

\* game.rs:156-203 (EventHandler::update), one call per frame, with the
\* frame's inputs: the pause key's press edge, ctx.time.delta() and the
\* pressed keys in the order the loop visits them.
update(space, dt, keys) ==
    /\ ~crashed
    /\ UNCHANGED window
    /\ \/ UpdatePaused(space)
       \/ UpdateDelay(space, dt)
       \/ UpdateActive(space, keys)

\* Each return path of update reads only some of the frame's inputs, so the
\* frames are enumerated by the inputs that are read.
Next ==
    \/ \E space \in BOOLEAN : update(space, 0, << >>) /\ last'.branch = "paused"
    \/ \E space \in BOOLEAN, dt \in FrameTimes :
          update(space, dt, << >>) /\ last'.branch = "delay"
    \/ \E space \in BOOLEAN, keys \in KeyOrders :
          update(space, 0, keys) /\ last'.branch \notin {"paused", "delay"}

Spec == Init /\ [][Next]_vars

\* The keys of the games checked for progress: none, or the down key held.
FairKeys == {<< >>, <<"S">>}

\* The frames of a game whose frame times are positive: a frame that is
\* paused after the toggle, a frame of the post-score delay, an active frame.
FairPaused ==
    \E space \in BOOLEAN : update(space, 0, << >>) /\ last'.branch = "paused"
FairDelay ==
    \E space \in BOOLEAN, dt \in FrameTimes \ {0} :
        update(space, dt, << >>) /\ last'.branch = "delay"
FairActive ==
    \E space \in BOOLEAN, keys \in FairKeys :
        update(space, 0, keys) /\ last'.branch \notin {"paused", "delay"}

NextFair == FairPaused \/ FairDelay \/ FairActive

\* The event loop calls update for every frame (main.rs:20, event::run), and
\* the player does not leave the game paused forever: unpaused frames keep
\* coming while they are possible.
SpecFair ==
    /\ Init
    /\ [][NextFair]_vars
    /\ WF_vars(FairDelay)
    /\ WF_vars(FairActive)

\* The ball, the paddle bounces and the record of the last frame after n
\* more frames of update in which the game is not paused, no key is pressed
\* and the paddles stand at their initial layout (game.rs:176-179).
RECURSIVE Rally(_, _, _, _, _)
Rally(bp, bv, c, seen, n) ==
    IF n = 0 THEN [pos |-> bp, vel |-> bv, covered |-> c, last |-> seen]
    ELSE LET ball == handle_ball_movement(
                         bp, bv,
                         LeftPaddleStart(WindowWidth * Scale, WindowHeight * Scale),
                         RightPaddleStart(WindowWidth * Scale, WindowHeight * Scale),
                         WindowHeight * Scale)
         IN  Rally(ball.pos, ball.vel,
                   Cover(c, ball.leftHit, ball.rightHit),
                   [Seen("active") EXCEPT
                       !.leftBand = ball.leftBand, !.leftHit = ball.leftHit,
                       !.rightBand = ball.rightBand,
                       !.rightHit = ball.rightHit, !.wall = ball.wall],
                   n - 1)

\* A game in the middle of a rally: the state RallyFrames frames after
\* construction when no key is pressed; no frame of these scores, and both
\* paddles have bounced the ball.
InitRally ==
    /\ window = [w |-> WindowWidth * Scale, h |-> WindowHeight * Scale]
    /\ left_paddle_pos = LeftPaddleStart(window.w, window.h)
    /\ right_paddle_pos = RightPaddleStart(window.w, window.h)
    /\ \E r1 \in AngleDraws, r2 \in SignDraws :
          \E r \in {Rally(BallStart(window.w, window.h),
                          random_ball_velocity(r1, r2), NoCover, NoEvent,
                          RallyFrames)} :
              /\ ball_pos = r.pos
              /\ ball_vel = r.vel
              /\ covered = r.covered
              /\ last = r.last
    /\ score = <<0, 0>>
    /\ delay_duration = 0
    /\ paused = FALSE
    /\ crashed = FALSE
    /\ frames = 0

SpecRally == InitRally /\ [][Next]_vars

SpecLate == InitLate /\ [][Next]_vars

(***************************************************************************)
(* Properties.  A step of the specification is one update call; an unprimed *)
(* variable is the field before the call and a primed one the field after. *)
(***************************************************************************)
Radius == BALL_RADIUS * Scale

\* The ball position handle_ball_movement computes first (game.rs:95-96).
Moved == [x |-> ball_pos.x + ball_vel.x, y |-> ball_pos.y + ball_vel.y]

\* The update is not paused after the pause toggle, and no delay is running.
ActiveFrame == ~paused' /\ delay_duration = 0

\* The update is not paused after the pause toggle, and a delay is running.
DelayFrame == ~paused' /\ delay_duration > 0

LeftEdgeOut == Moved.x - Radius < 0
RightEdgeOut == Moved.x + Radius > window.w

Floor0(n) == IF n < 0 THEN 0 ELSE n

Centre == [x |-> Round(window.w, 2), y |-> Round(window.h, 2)]
PaddleStartY == Round(window.h, 2) - Round(PADDLE_HEIGHT * Scale, 2)

\* One ordinary frame step: the countdown loses this frame's time only, or
\* the ball makes one step of its velocity (or the frame scores).
OrdinaryFrame ==
    IF delay_duration > 0
    THEN /\ last'.dt \in FrameTimes
         /\ delay_duration' = Floor0(delay_duration - last'.dt)
         /\ UNCHANGED <<left_paddle_pos, right_paddle_pos, ball_pos, ball_vel,
                        score>>
    ELSE /\ LeftEdgeOut \/ RightEdgeOut \/ ball_pos' = Moved
         /\ LeftEdgeOut \/ RightEdgeOut
               \/ Abs(left_paddle_pos'.y - left_paddle_pos.y)
                      <= PADDLE_SPEED * Scale

\* C1: while the game is paused (from the update whose Space press edge
\* pauses it to the update whose press edge resumes it) no update changes a
\* paddle, the ball, its velocity, the score or the remaining delay, whatever
\* the keys and the frame time; the update that resumes performs one
\* ordinary frame step from the values the pause began with.
C1_PauseFreezes ==
    [][ /\ paused' => UNCHANGED game
        /\ (paused /\ ~paused') => OrdinaryFrame ]_vars

\* C1 witness: the game is paused in the middle of a post-score countdown.
C1_PausedMidDelay ==
    /\ paused
    /\ last.branch = "paused"
    /\ 0 < delay_duration
    /\ delay_duration < DELAY_MILLIS

\* C2: the update that scores arms a delay of one second; while the delay is
\* above zero an unpaused update changes no paddle, ball position, velocity
\* or score and only lowers the delay by the frame's time, floored at zero;
\* an unpaused update that finds the delay at zero moves the ball again.
C2_DelayFreezes ==
    [][ /\ (ActiveFrame /\ (LeftEdgeOut \/ RightEdgeOut))
              => delay_duration' = DELAY_MILLIS
        /\ DelayFrame =>
              /\ UNCHANGED <<left_paddle_pos, right_paddle_pos, ball_pos,
                             ball_vel, score>>
              /\ last'.dt \in FrameTimes
              /\ delay_duration' = Floor0(delay_duration - last'.dt)
        /\ ActiveFrame =>
              \/ ball_pos' = Moved /\ delay_duration' = 0
              \/ (LeftEdgeOut \/ RightEdgeOut) /\ ball_pos' = Centre ]_vars

\* C2 witness: after a score the countdown has run out and the ball has
\* moved again.
C2_PlayResumed ==
    /\ score # <<0, 0>>
    /\ delay_duration = 0
    /\ last.branch = "active"
    /\ last.scored = "none"
    /\ ball_pos # Centre

\* The frame scores (game.rs:143-146), seen from the state before it.
Scores == LeftEdgeOut \/ RightEdgeOut

HalfPaddle == Round(PADDLE_HEIGHT * Scale, 2)

LeftStart == [x |-> 20 * Scale, y |-> PaddleStartY]
RightStart == [x |-> window.w - PADDLE_WIDTH * Scale - 20 * Scale,
               y |-> PaddleStartY]

Up(p) == [p EXCEPT !.y = @ - PADDLE_SPEED * Scale]

\* C3: an update in which the moved ball's left edge is below 0 adds exactly
\* one to the right score, leaves the left score, puts the ball at the window
\* centre and both paddles at their initial layout, for every prior score.
C3_LeftEdgeScores ==
    [][ (ActiveFrame /\ LeftEdgeOut) =>
            /\ score' = <<score[1], score[2] + 1>>
            /\ ball_pos' = Centre
            /\ left_paddle_pos' = LeftStart
            /\ right_paddle_pos' = RightStart ]_vars

\* C4: in every frame in which W is among the pressed keys both paddles end
\* exactly PADDLE_SPEED higher (their y is 5 less).
C4_UpKeyMovesUp ==
    [][ "W" \in last'.keys =>
            /\ left_paddle_pos' = Up(left_paddle_pos)
            /\ right_paddle_pos' = Up(right_paddle_pos) ]_vars

\* C4 as amended: in every active frame (not paused after the toggle, no
\* delay running) in which W is pressed, S is not, and the frame does not
\* score, both paddles end exactly PADDLE_SPEED higher.
C4_UpKeyAloneMovesUp ==
    [][ (ActiveFrame /\ last'.keys = {"W"} /\ ~Scores) =>
            /\ left_paddle_pos' = Up(left_paddle_pos)
            /\ right_paddle_pos' = Up(right_paddle_pos) ]_vars

\* C4 witness: an active frame with only W pressed that did not score.
C4_MovedUp ==
    /\ last.branch = "active"
    /\ last.keys = {"W"}
    /\ last.scored = "none"
    /\ left_paddle_pos.y < PaddleStartY

\* C5: in every frame in which no key is pressed both paddles keep their y.
C5_NoKeyKeepsPaddles ==
    [][ last'.keys = {} =>
            /\ left_paddle_pos'.y = left_paddle_pos.y
            /\ right_paddle_pos'.y = right_paddle_pos.y ]_vars

\* C5 as amended: in every frame in which no key is pressed both paddles keep
\* their y, unless the frame scores: then both are reset to
\* height/2 - PADDLE_HEIGHT/2.
C5_NoKeyKeepsPaddlesUnlessScore ==
    [][ last'.keys = {} =>
            IF ActiveFrame /\ Scores
            THEN /\ left_paddle_pos'.y = PaddleStartY
                 /\ right_paddle_pos'.y = PaddleStartY
            ELSE /\ left_paddle_pos'.y = left_paddle_pos.y
                 /\ right_paddle_pos'.y = right_paddle_pos.y ]_vars

\* C5 witness: an active frame without a pressed key, the paddles resting
\* away from their initial position.
C5_IdleAwayFromStart ==
    /\ last.branch = "active"
    /\ last.keys = {}
    /\ last.scored = "none"
    /\ left_paddle_pos.y # PaddleStartY

\* The moved ball is beyond the top or the bottom wall (game.rs:133).
WallMet == Moved.y - Radius < 0 \/ Moved.y + Radius > window.h

\* The moved ball's leading edge is inside a paddle's surface band
\* (game.rs:104-105 and 119-120).
LeftBand ==
    /\ Moved.x - Radius < left_paddle_pos.x + PADDLE_WIDTH * Scale
    /\ Moved.x - Radius > left_paddle_pos.x
RightBand ==
    /\ Moved.x + Radius > right_paddle_pos.x
    /\ Moved.x + Radius < right_paddle_pos.x + PADDLE_WIDTH * Scale

\* Ball centre minus paddle centre, the paddle being where this frame's
\* movement put it (in a frame that does not score, where the frame left it).
LeftOffset == Moved.y - (left_paddle_pos'.y + HalfPaddle)
RightOffset == Moved.y - (right_paddle_pos'.y + HalfPaddle)

\* The offset ratio is within [-1, 1]: the paddle bounces the ball.
LeftBounce == LeftBand /\ Abs(LeftOffset) <= HalfPaddle
RightBounce == RightBand /\ Abs(RightOffset) <= HalfPaddle

\* The offset ratio exceeds 1 in magnitude: the hit is ignored.
LeftIgnored == LeftBand /\ Abs(LeftOffset) > HalfPaddle
RightIgnored == RightBand /\ Abs(RightOffset) > HalfPaddle

Reflected(v) == [x |-> v.x, y |-> -v.y]

\* C6: in any frame in which the moved ball is beyond a wall, the velocity
\* after the frame is the velocity before it with the y-component negated.
C6_WallNegatesY ==
    [][ (ActiveFrame /\ WallMet) => ball_vel' = Reflected(ball_vel) ]_vars

\* C6 as amended: the same, in frames that apply no paddle bounce and do not
\* score.
C6_WallAloneNegatesY ==
    [][ (ActiveFrame /\ WallMet /\ ~Scores /\ ~LeftBounce /\ ~RightBounce)
            => ball_vel' = Reflected(ball_vel) ]_vars

\* C6 witness: a frame met a wall, with no paddle bounce and no score.
C6_WallOnly ==
    /\ last.branch = "active"
    /\ last.wall
    /\ ~last.leftHit /\ ~last.rightHit
    /\ last.scored = "none"

\* v and w point the same way.
SameDirection(v, w) ==
    /\ v.x * w.y = v.y * w.x
    /\ v.x * w.x + v.y * w.y > 0

\* C7: in any frame in which the moved ball's leading edge is inside a
\* paddle's band with an offset ratio above 1 in magnitude, the velocity
\* points the same way after the frame as before it.
C7_IgnoredHitKeepsDirection ==
    [][ (ActiveFrame /\ ~Scores /\ (LeftIgnored \/ RightIgnored))
            => SameDirection(ball_vel, ball_vel') ]_vars

\* C7 as amended: such a frame, unless the other paddle bounces the ball,
\* leaves the velocity as it was, except that a wall met in the same frame
\* negates its y-component.
C7_IgnoredHitLeavesVelocityToWall ==
    [][ (ActiveFrame /\ ~Scores
           /\ \/ LeftIgnored /\ ~RightBounce
              \/ RightIgnored /\ ~LeftBounce)
            => ball_vel' = IF WallMet THEN Reflected(ball_vel) ELSE ball_vel
      ]_vars

\* C7 witness: a frame ignored a hit and met no wall.
C7_HitIgnored ==
    /\ last.branch = "active"
    /\ last.scored = "none"
    /\ ~last.wall
    /\ \/ last.leftBand /\ ~last.leftHit
       \/ last.rightBand /\ ~last.rightHit

Speed(v) == Sqrt(v.x * v.x + v.y * v.y)

\* C8: a paddle bounce (offset ratio within [-1, 1], left or right) leaves
\* the ball's speed what it was, to within SpeedTol units of 1 / Scale.
C8_BounceKeepsSpeed ==
    [][ (ActiveFrame /\ ~Scores /\ (LeftBounce \/ RightBounce))
            => Abs(Speed(ball_vel') - Speed(ball_vel)) <= SpeedTol ]_vars

\* C8 witness: a paddle has bounced the ball off its centre line, so that
\* the direction changed.
C8_Bounced ==
    /\ last.branch = "active"
    /\ last.scored = "none"
    /\ last.leftHit \/ last.rightHit
    /\ ball_vel.y # 0
    /\ ~last.wall

\* C9: in every reachable state the two paddles have the same y and stand at
\* their initial x; an update changes a paddle's x only when it scores.
C9_PaddlesTogether ==
    /\ [](/\ left_paddle_pos.y = right_paddle_pos.y
          /\ left_paddle_pos.x = LeftStart.x
          /\ right_paddle_pos.x = RightStart.x)
    /\ [][ (left_paddle_pos'.x # left_paddle_pos.x
              \/ right_paddle_pos'.x # right_paddle_pos.x)
            => (ActiveFrame /\ Scores) ]_vars

\* C9 witness: both W and S were pressed and the paddles are away from their
\* initial position, after a score and its reset.
C9_MovedTogether ==
    /\ last.keys = {"W", "S"}
    /\ left_paddle_pos.y # PaddleStartY
    /\ score # <<0, 0>>

\* C10: in any update at most one counter changes, by exactly 1: the right
\* one when the moved ball's left edge is below 0, else the left one when its
\* right edge is above x_bound; else no counter changes and no reset and no
\* delay is triggered.
C10_ExclusiveScore ==
    [][ IF ActiveFrame /\ LeftEdgeOut
        THEN score' = <<score[1], score[2] + 1>>
        ELSE IF ActiveFrame /\ RightEdgeOut
        THEN score' = <<score[1] + 1, score[2]>>
        ELSE /\ score' = score
             /\ ActiveFrame =>
                   /\ ball_pos' = Moved
                   /\ delay_duration' = 0
                   /\ left_paddle_pos'.x = left_paddle_pos.x
                   /\ right_paddle_pos'.x = right_paddle_pos.x
                   /\ Abs(left_paddle_pos'.y - left_paddle_pos.y)
                          <= PADDLE_SPEED * Scale ]_vars

Down(p) == [p EXCEPT !.y = @ + PADDLE_SPEED * Scale]

\* A paddle's top is at or above the window's top, or its bottom at or below
\* the window's bottom.
AtOrAboveTop(p) == p.y <= 0
AtOrBelowBottom(p) == p.y + PADDLE_HEIGHT * Scale >= window.h

\* C11: the paddles are not kept inside the window: an active frame without
\* a score in which only the up key is held moves both paddles up by the
\* full PADDLE_SPEED even when they already reach the window's top or are
\* above it, and one in which only the down key is held moves them down by
\* PADDLE_SPEED even when they already reach the window's bottom or are
\* below it.
C11_NoPaddleClamping ==
    [][ /\ (ActiveFrame /\ ~Scores /\ last'.keys = {"W"}
              /\ AtOrAboveTop(left_paddle_pos))
            => /\ left_paddle_pos' = Up(left_paddle_pos)
               /\ right_paddle_pos' = Up(right_paddle_pos)
               /\ left_paddle_pos'.y < 0
        /\ (ActiveFrame /\ ~Scores /\ last'.keys = {"S"}
              /\ AtOrBelowBottom(left_paddle_pos))
            => /\ left_paddle_pos' = Down(left_paddle_pos)
               /\ right_paddle_pos' = Down(right_paddle_pos)
               /\ left_paddle_pos'.y + PADDLE_HEIGHT * Scale > window.h ]_vars

\* C11 witness: the up key was held in a frame that began with the paddles
\* already above the window's top, and they are now further above it.
C11_PaddlesAboveWindow ==
    /\ last.branch = "active"
    /\ last.keys = {"W"}
    /\ last.scored = "none"
    /\ left_paddle_pos.y < -(PADDLE_SPEED * Scale)
    /\ right_paddle_pos.y < -(PADDLE_SPEED * Scale)

\* C12: over any sequence of updates neither score counter decreases, and
\* every update in which the ball crosses an edge completes (it does not
\* panic), also when the counter to be incremented holds 255.
C12_ScoreNeverDecreases ==
    [][ /\ score'[1] >= score[1]
        /\ score'[2] >= score[2]
        /\ ~crashed' ]_vars

\* The ball is beyond the top wall, or beyond the bottom wall (game.rs:133),
\* at the end of a frame.
BeyondTop == ball_pos.y - Radius < 0
BeyondBottom == ball_pos.y + Radius > window.h

\* C13: whenever a frame ends with the ball beyond a wall its y-velocity
\* points to the interior, and the ball is never beyond the same wall at the
\* end of two consecutive active frames.
C13_WallsReflectInward ==
    /\ [](BeyondTop => ball_vel.y > 0)
    /\ [](BeyondBottom => ball_vel.y < 0)
    /\ [][ ActiveFrame =>
              /\ ~(BeyondTop /\ BeyondTop')
              /\ ~(BeyondBottom /\ BeyondBottom') ]_vars

\* The ball's leading edge goes from the field side of a paddle's band to
\* its far side within one frame.
PassesLeftBand ==
    /\ ball_pos.x - Radius >= left_paddle_pos.x + PADDLE_WIDTH * Scale
    /\ Moved.x - Radius <= left_paddle_pos.x
PassesRightBand ==
    /\ ball_pos.x + Radius <= right_paddle_pos.x
    /\ Moved.x + Radius >= right_paddle_pos.x + PADDLE_WIDTH * Scale

\* C14: the ball's horizontal step is smaller than the band width and it
\* never passes a band in one frame; a frame scores against a side only if
\* no frame since the last reset had the ball's leading edge in that side's
\* band with an offset ratio within [-1, 1]; a frame with the leading edge
\* in the left band and the ratio within [-1, 1] leaves the x-velocity
\* positive, one in the right band negative.
C14_CoveredNeverConceded ==
    /\ [](Abs(ball_vel.x) < PADDLE_WIDTH * Scale)
    /\ [][ ActiveFrame =>
              /\ ~PassesLeftBand /\ ~PassesRightBand
              /\ LeftEdgeOut => ~covered.left
              /\ RightEdgeOut => ~covered.right
              /\ LeftBounce => ball_vel'.x > 0
              /\ RightBounce => ball_vel'.x < 0 ]_vars

\* C14 as amended: the same, the frames that count being those since the
\* last reset or the ball's last bounce off the other paddle, whichever is
\* later.
C14_CoveredApproachNeverConceded ==
    /\ [](Abs(ball_vel.x) < PADDLE_WIDTH * Scale)
    /\ [][ ActiveFrame =>
              /\ ~PassesLeftBand /\ ~PassesRightBand
              /\ LeftEdgeOut => ~covered.leftApproach
              /\ RightEdgeOut => ~covered.rightApproach
              /\ LeftBounce => ball_vel'.x > 0
              /\ RightBounce => ball_vel'.x < 0 ]_vars

\* C14 witness: a point has just been scored against the left side, and
\* play began with a ball both paddles had bounced.
C14_ConcededAfterRally ==
    /\ last.branch = "active"
    /\ last.scored = "right"
    /\ score = <<0, 1>>
    /\ delay_duration = DELAY_MILLIS

\* C15: the delay is never above one second, it grows only in a frame that
\* scores, and while it is above zero the ball and the paddles rest where
\* the reset put them; after every frame that scores (and leaves an active
\* frame within the model's MaxFrames) the countdown reaches zero and a
\* later frame moves the ball.
C15_PlayResumes ==
    /\ [](delay_duration <= DELAY_MILLIS)
    /\ [](delay_duration > 0 =>
             /\ score # <<0, 0>>
             /\ ball_pos = Centre
             /\ left_paddle_pos = LeftStart
             /\ right_paddle_pos = RightStart)
    /\ [][ delay_duration' > delay_duration => (ActiveFrame /\ Scores) ]_vars
    /\ (last.scored # "none" /\ frames < MaxFrames)
           ~> (/\ delay_duration = 0
               /\ last.branch = "active"
               /\ last.scored = "none"
               /\ ball_pos # Centre)

\* C15 witness: the first frame after a score and its countdown has moved
\* the ball one step from the centre.
C15_FirstStepAfterScore ==
    /\ ~paused
    /\ score[1] + score[2] = 1
    /\ delay_duration = 0
    /\ last.branch = "active"
    /\ frames <= MaxFrames
    /\ \/ ball_pos = [x |-> Centre.x + ball_vel.x, y |-> Centre.y + ball_vel.y]
       \/ ball_pos = [x |-> Centre.x + ball_vel.x, y |-> Centre.y - ball_vel.y]

====
